---- MODULE Spec2Model ----
(***************************************************************************)
(* Model of xmltosps.go: the conversion of a Triple-S variable dictionary  *)
(* into an SPSS syntax file.  The output file is modelled as the sequence  *)
(* of WriteString calls that reached it; every call is recorded with the   *)
(* function that made it, its format string and its formatted arguments.   *)
(***************************************************************************)
EXTENDS Integers, Sequences, FiniteSets, TLC

VARIABLES pc, nargs, input, doc, env, b, data, fn, outPath, step, out, nw, diag

vars == <<pc, nargs, input, doc, env, b, data, fn, outPath, step, out, nw, diag>>

(***************************************************************************)
(* Bounds of the model.                                                    *)
(***************************************************************************)
MaxCol == 2
MaxVals == 2
MaxFailAt == 14
MaxPathLen == 4

(***************************************************************************)
(* The Triple-S data model (type Variables, Variable, Posit, Val).         *)
(***************************************************************************)
Types == {"character", "numeric", "date", "time", "single", "multiple", "logical", "quantity"}

NameSeq == <<"Q1", "Q2">>
LabelSeq == <<"Question 1", "Multi">>
Widths == {0, 1}

\* The coded values a variable declares, in declaration order: the code
\* attribute and the character data of each <value>.
ValList == << [Value |-> 2, Name |-> "Red"], [Value |-> 1, Name |-> "Blue"],
              [Value |-> 7, Name |-> "Green"], [Value |-> 4, Name |-> "Grey"] >>

ValSeqs == {SubSeq(ValList, 1, k) : k \in 0..MaxVals}

Posits == {[Start |-> s, Finish |-> s + w] : s \in 1..MaxCol, w \in Widths}

\* The variables that may stand at place i of a document.
VariableAt(i) == {[Type |-> t, Name |-> NameSeq[i], Label |-> LabelSeq[i], Position |-> p, Vals |-> vs] :
                    t \in Types, p \in Posits, vs \in ValSeqs}

RECURSIVE DocumentsOfLen(_)
DocumentsOfLen(n) ==
  IF n = 0 THEN {<<>>} ELSE {Append(d, v) : d \in DocumentsOfLen(n - 1), v \in VariableAt(n)}

\* type Variables: the decoded documents, variables in document order.
Variables == UNION {DocumentsOfLen(n) : n \in 0..Len(NameSeq)}

\* The documents used where the run, not the document, is explored.
PlainVariables == {d \in Variables : \A i \in DOMAIN d :
                     /\ d[i].Position = [Start |-> 1, Finish |-> 1]
                     /\ Len(d[i].Vals) = MaxVals}

(***************************************************************************)
(* One WriteString call: the writing function, the format string, the      *)
(* formatted arguments, and whether the call wrote only part of its text.  *)
(***************************************************************************)
Write(f, fmt, args) == [fn |-> f, fmt |-> fmt, args |-> args, short |-> FALSE]

\* VarType with the date branch returning no marker.
VarType_DateUnmarked(v) ==
  IF v.Type = "character" \/ v.Type = "time" THEN " (A)" ELSE ""

\* func (v Variable) VarType() string
VarType(v) ==
  IF v.Type = "character" \/ v.Type = "time" THEN " (A)"
  ELSE IF v.Type = "date" THEN " (A)"
  ELSE ""

\* DataList's loop body without the expansion of multiple variables.
DataListVar_NoExpansion(v) ==
  << Write("DataList", "\t%s\t%d-%d%v\n",
           <<v.Name, ToString(v.Position.Start), ToString(v.Position.Finish), VarType(v)>>) >>

\* DataList's loop body with the sub-fields ending at the declared finish column.
DataListVar_DeclaredFinish(v) ==
  IF v.Type # "multiple"
  THEN << Write("DataList", "\t%s\t%d-%d%v\n",
                <<v.Name, ToString(v.Position.Start), ToString(v.Position.Finish), VarType(v)>>) >>
  ELSE [i \in 1..Len(v.Vals) |->
          Write("DataList", "\t%s#%d\t%d-%d\n",
                <<v.Name, ToString(v.Vals[i].Value),
                  ToString(v.Position.Start + (i - 1)), ToString(v.Position.Finish)>>)]

\* The body of DataList's loop for one variable.
DataListVar(v) ==
  IF v.Type # "multiple"
  THEN << Write("DataList", "\t%s\t%d-%d%v\n",
                <<v.Name, ToString(v.Position.Start), ToString(v.Position.Finish), VarType(v)>>) >>
  ELSE [i \in 1..Len(v.Vals) |->
          Write("DataList", "\t%s#%d\t%d-%d\n",
                <<v.Name, ToString(v.Vals[i].Value),
                  ToString(v.Position.Start + (i - 1)), ToString(v.Position.Start + (i - 1))>>)]

RECURSIVE DataListLoop(_)
DataListLoop(d) ==
  IF d = <<>> THEN <<>> ELSE DataListVar(Head(d)) \o DataListLoop(Tail(d))

\* func DataList(o string, f *os.File, d *Variables) error : its writes in order.
DataListWrites(o, d) ==
  << Write("DataList", "FILE HANDLE longdata\n/NAME=\"%s\".\n", <<o>>),
     Write("DataList", "DATA LIST FILE=longdata\n/", <<>>) >>
  \o DataListLoop(d)
  \o << Write("DataList", ".\n\n", <<>>) >>

\* VariableLabels' loop body labelling a multiple variable under its plain name.
VariableLabelsVar_PlainName(v) ==
  << Write("VariableLabels", "\t%s\t\"%s\"\n", <<v.Name, v.Label>>) >>

\* The body of VariableLabels' loop for one variable.
VariableLabelsVar(v) ==
  IF v.Type # "multiple"
  THEN << Write("VariableLabels", "\t%s\t\"%s\"\n", <<v.Name, v.Label>>) >>
  ELSE [i \in 1..Len(v.Vals) |->
          Write("VariableLabels", "\t%s#%d\t\"%s\"\n",
                <<v.Name, ToString(v.Vals[i].Value), v.Label>>)]

RECURSIVE VariableLabelsLoop(_)
VariableLabelsLoop(d) ==
  IF d = <<>> THEN <<>> ELSE VariableLabelsVar(Head(d)) \o VariableLabelsLoop(Tail(d))

\* func VariableLabels(f *os.File, d *Variables) error : its writes in order.
VariableLabelsWrites(d) ==
  << Write("VariableLabels", "VARIABLE LABELS\n", <<>>) >>
  \o VariableLabelsLoop(d)
  \o << Write("VariableLabels", ".\nEXECUTE.\n\n\n", <<>>) >>

\* The two writes ValueLabels makes for one coded value of a multiple variable.
MultipleValue(v, mult) ==
  << Write("ValueLabels", "\t%s#%d\n", <<v.Name, ToString(mult.Value)>>),
     Write("ValueLabels", "\t\t0\"No\"\n\t\t1 \"%s\"\n/", <<mult.Name>>) >>

RECURSIVE MultipleLoop(_, _)
MultipleLoop(v, vals) ==
  IF vals = <<>> THEN <<>> ELSE MultipleValue(v, Head(vals)) \o MultipleLoop(v, Tail(vals))

\* ValueLabels' loop body pairing each code of a single variable with the
\* coded value's own text.
ValueLabelsVar_OwnText(v) ==
  IF v.Type = "single"
  THEN << Write("ValueLabels", "\t%s\n", <<v.Name>>) >>
       \o [i \in 1..Len(v.Vals) |->
             Write("ValueLabels", "\t\t%d \"%s\"\n", <<ToString(v.Vals[i].Value), v.Vals[i].Name>>)]
       \o << Write("ValueLabels", "/", <<>>) >>
  ELSE IF v.Type = "multiple"
  THEN MultipleLoop(v, v.Vals)
  ELSE IF v.Type = "logical"
  THEN << Write("ValueLabels", "\t%s\n", <<v.Name>>),
          Write("ValueLabels", "\t\t0\"False\"\n\t\t1 \"True\"\n/", <<>>) >>
  ELSE <<>>

\* ValueLabels' loop body with the logical branch as a plain else.
ValueLabelsVar_ElseLogical(v) ==
  IF v.Type = "single"
  THEN << Write("ValueLabels", "\t%s\n", <<v.Name>>) >>
       \o [i \in 1..Len(v.Vals) |->
             Write("ValueLabels", "\t\t%d \"%s\"\n", <<ToString(v.Vals[i].Value), v.Name>>)]
       \o << Write("ValueLabels", "/", <<>>) >>
  ELSE IF v.Type = "multiple"
  THEN MultipleLoop(v, v.Vals)
  ELSE << Write("ValueLabels", "\t%s\n", <<v.Name>>),
          Write("ValueLabels", "\t\t0\"False\"\n\t\t1 \"True\"\n/", <<>>) >>

\* The body of ValueLabels' loop for one variable.
ValueLabelsVar(v) ==
  IF v.Type = "single"
  THEN << Write("ValueLabels", "\t%s\n", <<v.Name>>) >>
       \o [i \in 1..Len(v.Vals) |->
             Write("ValueLabels", "\t\t%d \"%s\"\n", <<ToString(v.Vals[i].Value), v.Name>>)]
       \o << Write("ValueLabels", "/", <<>>) >>
  ELSE IF v.Type = "multiple"
  THEN MultipleLoop(v, v.Vals)
  ELSE IF v.Type = "logical"
  THEN << Write("ValueLabels", "\t%s\n", <<v.Name>>),
          Write("ValueLabels", "\t\t0\"False\"\n\t\t1 \"True\"\n/", <<>>) >>
  ELSE <<>>

RECURSIVE ValueLabelsLoop(_)
ValueLabelsLoop(d) ==
  IF d = <<>> THEN <<>> ELSE ValueLabelsVar(Head(d)) \o ValueLabelsLoop(Tail(d))

\* func ValueLabels(f *os.File, d *Variables) error : its writes in order.
ValueLabelsWrites(d) ==
  << Write("ValueLabels", "VALUE LABELS\n", <<>>) >>
  \o ValueLabelsLoop(d)
  \o << Write("ValueLabels", "EXECUTE.\n\n", <<>>) >>

\* func SaveToSPSS(p string, fn string, f *os.File) error : its one write
\* (p and fn are strings here, see Str below).
SaveToSPSSWrites(p, name) ==
  << Write("SaveToSPSS", "SAVE OUTFILE='%s/%s.sav'\n/COMPRESSED.", <<p, name>>) >>

(***************************************************************************)
(* Paths are sequences of one-character strings.                           *)
(***************************************************************************)
PathChars == {"/", ".", "x", "a"}

RECURSIVE PathsOfLen(_)
PathsOfLen(n) ==
  IF n = 0 THEN {<<>>} ELSE {Append(p, c) : p \in PathsOfLen(n - 1), c \in PathChars}


SetMax(S) == CHOOSE x \in S : \A y \in S : y <= x
SetMin(S) == CHOOSE x \in S : \A y \in S : x <= y

LastSlash(p) == SetMax({0} \cup {i \in 1..Len(p) : p[i] = "/"})

\* path.Base: the last element of the path, trailing slashes removed.
Base(p) ==
  IF p = <<>> THEN <<".">>
  ELSE LET keep == {i \in 1..Len(p) : p[i] # "/"}
       IN IF keep = {} THEN <<"/">>
          ELSE LET q == SubSeq(p, 1, SetMax(keep))
               IN SubSeq(q, LastSlash(q) + 1, Len(q))

\* path.Ext: the suffix from the last dot of the last element of the path.
Ext(p) ==
  LET dots == {i \in (LastSlash(p) + 1)..Len(p) : p[i] = "."}
  IN IF dots = {} THEN <<>> ELSE SubSeq(p, SetMax(dots), Len(p))

\* os.Args[1]: the paths that name a visible file, those whose last element
\* is not empty and does not begin with a dot.
Paths == {p \in UNION {PathsOfLen(n) : n \in 1..MaxPathLen} :
            p[Len(p)] # "/" /\ Base(p)[1] # "."}

\* strings.Trim: s without its leading and trailing characters that occur in cutset.
Trim(s, cutset) ==
  LET cut == {cutset[i] : i \in 1..Len(cutset)}
      keep == {i \in 1..Len(s) : s[i] \notin cut}
  IN IF keep = {} THEN <<>> ELSE SubSeq(s, SetMin(keep), SetMax(keep))

\* The elements of a path between its slashes.
RECURSIVE SplitSlash(_)
SplitSlash(p) ==
  IF p = <<>> THEN << <<>> >>
  ELSE LET r == SplitSlash(Tail(p))
       IN IF Head(p) = "/" THEN << <<>> >> \o r
          ELSE << <<Head(p)>> \o Head(r) >> \o Tail(r)

\* path.Clean's treatment of the elements: "." and empty elements are dropped,
\* ".." removes the element before it, or is dropped at the root.
RECURSIVE CleanElems(_, _, _)
CleanElems(stack, rest, rooted) ==
  IF rest = <<>> THEN stack
  ELSE LET e == Head(rest)
       IN IF e = <<>> \/ e = <<".">> THEN CleanElems(stack, Tail(rest), rooted)
          ELSE IF e = <<".", ".">>
          THEN IF stack # <<>> /\ stack[Len(stack)] # <<".", ".">>
               THEN CleanElems(SubSeq(stack, 1, Len(stack) - 1), Tail(rest), rooted)
               ELSE IF rooted THEN CleanElems(stack, Tail(rest), rooted)
               ELSE CleanElems(Append(stack, e), Tail(rest), rooted)
          ELSE CleanElems(Append(stack, e), Tail(rest), rooted)

RECURSIVE JoinSlash(_)
JoinSlash(elems) ==
  IF elems = <<>> THEN <<>>
  ELSE IF Len(elems) = 1 THEN Head(elems)
  ELSE Head(elems) \o <<"/">> \o JoinSlash(Tail(elems))

\* path.Clean: the shortest path name equivalent to p by lexical processing.
Clean(p) ==
  LET rooted == p # <<>> /\ p[1] = "/"
      body == JoinSlash(CleanElems(<<>>, SplitSlash(p), rooted))
  IN IF rooted THEN <<"/">> \o body
     ELSE IF body = <<>> THEN <<".">> ELSE body

\* path.Dir: all but the last element of the path, cleaned.
Dir(p) == Clean(SubSeq(p, 1, LastSlash(p)))

\* main, line 208: the stem used for the output file and the save directive.
FileStem(in) == Trim(Base(in), Ext(in))

\* main, line 209: the path of the created file, "%s/%s.sps".
SpsPath(in, name) == Dir(in) \o <<"/">> \o name \o <<".", "s", "p", "s">>

\* The string a path spells, as %s prints it.
RECURSIVE Str(_)
Str(p) == IF p = <<>> THEN "" ELSE Head(p) \o Str(Tail(p))

(***************************************************************************)
(* The run of main.  env is what the run meets outside the program: whether *)
(* the input can be read, whether its bytes decode, and which WriteString  *)
(* call on the output file fails (failAt = 0: none), writing part of its   *)
(* text or nothing (short).                                                *)
(***************************************************************************)
Handle == "longdata.asc"

\* main calling ValueLabels before VariableLabels.
GenSeq_LabelsSwapped == <<"DataList", "ValueLabels", "VariableLabels", "SaveToSPSS">>

\* main, lines 215-224: the generation steps in the order main calls them.
GenSeq == <<"DataList", "VariableLabels", "ValueLabels", "SaveToSPSS">>

Envs == {e \in [readOK : BOOLEAN, wf : BOOLEAN, failAt : 0..MaxFailAt, short : BOOLEAN] :
           e.failAt = 0 => ~e.short}

ReliableEnv == [readOK |-> TRUE, wf |-> TRUE, failAt |-> 0, short |-> FALSE]

InitRun ==
  /\ pc = "start"
  /\ b = [vars |-> <<>>, wf |-> TRUE]
  /\ data = <<>>
  /\ fn = <<>>
  /\ outPath = <<>>
  /\ step = 0
  /\ out = <<>>
  /\ nw = 0
  /\ diag = ""

Init ==
  /\ InitRun
  /\ nargs \in {2, 3}
  /\ input = <<"a", ".", "x">>
  /\ doc \in PlainVariables
  /\ env \in Envs

\* The writes of one generation function as they reach the file: each
\* WriteString is followed by "if err != nil { return err }", so the writes
\* stop at the first failing call.
Emit(plan) ==
  LET fails == env.failAt > nw /\ env.failAt <= nw + Len(plan)
      k == IF fails THEN env.failAt - nw - 1 ELSE Len(plan)
      part == IF fails /\ env.short
              THEN << [plan[k + 1] EXCEPT !.short = TRUE] >> ELSE <<>>
  IN [out |-> out \o SubSeq(plan, 1, k) \o part,
      nw |-> IF fails THEN nw + k + 1 ELSE nw + k,
      err |-> fails]

\* main, lines 194-197
ParseArgs ==
  /\ pc = "start"
  /\ IF nargs < 3
     THEN pc' = "fatal" /\ diag' = "Usage: XMLtoSPS <XML:filepath> <ASC:filepath>"
     ELSE pc' = "args" /\ diag' = diag
  /\ UNCHANGED <<nargs, input, doc, env, b, data, fn, outPath, step, out, nw>>

\* main, lines 198-202
OpenInput ==
  /\ pc = "args"
  /\ \E ok \in BOOLEAN :
       IF ok THEN pc' = "opened" /\ diag' = diag
       ELSE pc' = "fatal" /\ diag' = "open"
  /\ UNCHANGED <<nargs, input, doc, env, b, data, fn, outPath, step, out, nw>>

\* main, line 204: the error of ReadAll is discarded; on an error b holds the
\* bytes read so far, which end inside the document.
ReadInput ==
  /\ pc = "opened"
  /\ \E k \in (IF env.readOK THEN {Len(doc)} ELSE 0..Len(doc)) :
       b' = [vars |-> SubSeq(doc, 1, k), wf |-> env.readOK /\ env.wf]
  /\ pc' = "read"
  /\ UNCHANGED <<nargs, input, doc, env, data, fn, outPath, step, out, nw, diag>>

\* main, lines 205-206: the error of xml.Unmarshal is discarded; data holds
\* what was decoded before it.
Unmarshal ==
  /\ pc = "read"
  /\ data' = b.vars
  /\ pc' = "parsed"
  /\ UNCHANGED <<nargs, input, doc, env, b, fn, outPath, step, out, nw, diag>>

\* main, lines 208-213
CreateOutput ==
  /\ pc = "parsed"
  /\ fn' = FileStem(input)
  /\ \E ok \in BOOLEAN :
       IF ok THEN pc' = "gen" /\ outPath' = SpsPath(input, fn') /\ diag' = diag
       ELSE pc' = "fatal" /\ outPath' = outPath
            /\ diag' = "Please use forward slash in file path. As an example C:/Users/..."
  /\ UNCHANGED <<nargs, input, doc, env, b, data, step, out, nw>>

\* main going on after a generation step whatever error it returned.
AfterStep_ErrorDropped(err) ==
  IF step + 1 = Len(GenSeq) THEN "done" ELSE "gen"

\* main's "if err != nil {log.Fatalln(err)}" after a generation step, and
\* SaveToSPSS's own log.Fatalln: the position of the run after the step.
AfterStep(err) ==
  IF err THEN "fatal"
  ELSE IF step + 1 = Len(GenSeq) THEN "done" ELSE "gen"

\* One generation step of main: its writes, then the check of its error.
Generate(plan) ==
  LET r == Emit(plan)
  IN /\ out' = r.out
     /\ nw' = r.nw
     /\ pc' = AfterStep(r.err)
     /\ step' = IF r.err THEN step ELSE step + 1
     /\ diag' = IF r.err THEN "write" ELSE diag
     /\ UNCHANGED <<nargs, input, doc, env, b, data, fn, outPath>>

\* main, lines 215-216
RunDataList ==
  /\ pc = "gen" /\ GenSeq[step + 1] = "DataList"
  /\ Generate(DataListWrites(Handle, data))

\* main, lines 218-219
RunVariableLabels ==
  /\ pc = "gen" /\ GenSeq[step + 1] = "VariableLabels"
  /\ Generate(VariableLabelsWrites(data))

\* main, lines 221-222
RunValueLabels ==
  /\ pc = "gen" /\ GenSeq[step + 1] = "ValueLabels"
  /\ Generate(ValueLabelsWrites(data))

\* main, lines 224-225
RunSaveToSPSS ==
  /\ pc = "gen" /\ GenSeq[step + 1] = "SaveToSPSS"
  /\ Generate(SaveToSPSSWrites(Str(Dir(input)), Str(fn)))

Next ==
  \/ ParseArgs
  \/ OpenInput
  \/ ReadInput
  \/ Unmarshal
  \/ CreateOutput
  \/ RunDataList
  \/ RunVariableLabels
  \/ RunValueLabels
  \/ RunSaveToSPSS

Spec == Init /\ [][Next]_vars

\* The same run over every document of the data model, on a reliable file system.
InitGen ==
  /\ InitRun
  /\ nargs = 3
  /\ input = <<"a", ".", "x">>
  /\ doc \in Variables
  /\ env = ReliableEnv

SpecGen == InitGen /\ [][Next]_vars

\* The same run over every input path, on a reliable file system.
InitPath ==
  /\ InitRun
  /\ nargs = 3
  /\ input \in Paths
  /\ doc = <<>>
  /\ env = ReliableEnv

SpecPath == InitPath /\ [][Next]_vars

(***************************************************************************)
(* Vocabulary of the properties.                                           *)
(***************************************************************************)
\* The writes of function f that reached the file, in order.
Block(f) == SelectSeq(out, LAMBDA w : w.fn = f)

\* Function f was called by main and returned without error.
Returned(f) == \E i \in 1..step : GenSeq[i] = f

\* The entries of a finished block: its writes between the opening write(s)
\* and the closing write.
LayoutEntries == SubSeq(Block("DataList"), 3, Len(Block("DataList")) - 1)
LabelEntries == SubSeq(Block("VariableLabels"), 2, Len(Block("VariableLabels")) - 1)
ValueLabelBody == SubSeq(Block("ValueLabels"), 2, Len(Block("ValueLabels")) - 1)

SubFieldFormats == {"\t%s#%d\t%d-%d\n", "\t%s#%d\t\"%s\"\n", "\t%s#%d\n"}

\* The name an entry declares: name, or name and code for name#code.
EntryName(w) ==
  IF w.fmt \in SubFieldFormats THEN <<w.args[1], w.args[2]>> ELSE <<w.args[1]>>

\* The fields a document asks for, in document order: <<i, 0>> for the i-th
\* variable when it is not multiple, <<i, j>> for its j-th coded value when it is.
RECURSIVE FieldsFrom(_, _)
FieldsFrom(d, i) ==
  IF i > Len(d) THEN <<>>
  ELSE (IF d[i].Type = "multiple" THEN [j \in 1..Len(d[i].Vals) |-> <<i, j>>] ELSE << <<i, 0>> >>)
       \o FieldsFrom(d, i + 1)

Fields(d) == FieldsFrom(d, 1)

FieldName(d, s) ==
  IF s[2] = 0 THEN <<d[s[1]].Name>>
  ELSE <<d[s[1]].Name, ToString(d[s[1]].Vals[s[2]].Value)>>

RECURSIVE SumOver(_, _)
SumOver(S, d) ==
  IF S = {} THEN 0
  ELSE LET i == CHOOSE x \in S : TRUE IN Len(d[i].Vals) + SumOver(S \ {i}, d)

Multiples(d) == {i \in DOMAIN d : d[i].Type = "multiple"}

\* C1: when DataList has returned, its layout block holds one entry per
\* non-multiple variable and one per coded value of each multiple variable,
\* in document order, the coded values in declaration order.
C1_LayoutEntries ==
  Returned("DataList") =>
    /\ Len(LayoutEntries) = Cardinality(DOMAIN data \ Multiples(data)) + SumOver(Multiples(data), data)
    /\ Len(LayoutEntries) = Len(Fields(data))
    /\ \A n \in 1..Len(LayoutEntries) :
         EntryName(LayoutEntries[n]) = FieldName(data, Fields(data)[n])

C1_Witness ==
  /\ Returned("DataList")
  /\ Len(data) = 2
  /\ data[1].Type = "multiple" /\ Len(data[1].Vals) = 2
  /\ data[2].Type = "numeric"
  /\ Len(LayoutEntries) = 3

\* C2: the entry of the i-th coded value (i from 0) of a multiple variable
\* with start column S is named name#code_i and spans S+i to S+i, whatever
\* the declared finish column.
C2_SubFieldSpan ==
  Returned("DataList") =>
    \A n \in 1..Len(Fields(data)) :
      LET s == Fields(data)[n]
          v == data[s[1]]
      IN s[2] > 0 =>
           /\ n <= Len(LayoutEntries)
           /\ LayoutEntries[n].args = <<v.Name, ToString(v.Vals[s[2]].Value),
                                        ToString(v.Position.Start + (s[2] - 1)),
                                        ToString(v.Position.Start + (s[2] - 1))>>

C2_Witness ==
  /\ Returned("DataList")
  /\ Len(data) = 2
  /\ data[1].Type = "multiple" /\ Len(data[1].Vals) = 2
  /\ data[1].Position.Finish < data[1].Position.Start + 1
  /\ data[2].Type = "multiple" /\ Len(data[2].Vals) = 1
  /\ data[2].Position.Finish > data[2].Position.Start
  /\ Len(LayoutEntries) = 3

\* The value-label lines of single variables: the writes of the code format.
CodeLines == SelectSeq(ValueLabelBody, LAMBDA w : w.fmt = "\t\t%d \"%s\"\n")

\* The value-label lines the single variables of d ask for, each code paired
\* with the named field of its variable.
RECURSIVE SingleLinesFrom(_, _, _)
SingleLinesFrom(d, i, field) ==
  IF i > Len(d) THEN <<>>
  ELSE (IF d[i].Type = "single"
        THEN [j \in 1..Len(d[i].Vals) |-> <<ToString(d[i].Vals[j].Value), d[i][field]>>]
        ELSE <<>>)
       \o SingleLinesFrom(d, i + 1, field)

CodeLineArgs == [n \in 1..Len(CodeLines) |-> CodeLines[n].args]

\* C3 as stated: every value-label line of a single variable pairs the code
\* of one coded value with the variable's label text, one line per coded
\* value in declaration order.
C3_PairsCodeWithLabel ==
  Returned("ValueLabels") => CodeLineArgs = SingleLinesFrom(data, 1, "Label")

\* C3 amended: every value-label line of a single variable pairs the code of
\* one coded value with the variable's name, one line per coded value in
\* declaration order.
C3_PairsCodeWithName ==
  Returned("ValueLabels") => CodeLineArgs = SingleLinesFrom(data, 1, "Name")

C3_Witness ==
  /\ Returned("ValueLabels")
  /\ \E i \in DOMAIN data : data[i].Type = "single" /\ Len(data[i].Vals) = 2
  /\ Len(CodeLines) >= 2

\* The sections of the value-label block: the writes that open one, each
\* with the variable name it opens the section for.
SectionHeads == SelectSeq(ValueLabelBody, LAMBDA w : w.fmt \in {"\t%s\n", "\t%s#%d\n"})

SectionsOf(v) == {n \in 1..Len(SectionHeads) : SectionHeads[n].args[1] = v.Name}

\* C4 as stated: the value-label block holds a section for every variable of
\* type single, multiple or logical, also one with no coded values, and none
\* for a variable of another type.
C4_SectionPerLabelledType ==
  Returned("ValueLabels") =>
    \A i \in DOMAIN data :
      (data[i].Type \in {"single", "multiple", "logical"}) <=> (SectionsOf(data[i]) # {})

\* C4 amended: the value-label block holds one section for every single and
\* every logical variable, also one with no coded values, one section per
\* coded value of every multiple variable (none when it has no coded
\* values), and none for a variable of another type.
C4_SectionsByType ==
  Returned("ValueLabels") =>
    \A i \in DOMAIN data :
      Cardinality(SectionsOf(data[i])) =
        IF data[i].Type \in {"single", "logical"} THEN 1
        ELSE IF data[i].Type = "multiple" THEN Len(data[i].Vals)
        ELSE 0

C4_Witness ==
  /\ Returned("ValueLabels")
  /\ Len(data) = 2
  /\ data[1].Type = "multiple" /\ data[1].Vals = <<>>
  /\ data[2].Type = "logical"
  /\ Len(SectionHeads) = 1

\* C5: the names labelled in the variable-label block are the names declared
\* in the layout block, in the same order, and every one carries the label
\* of the variable it belongs to.
C5_LabelsFollowLayout ==
  (Returned("DataList") /\ Returned("VariableLabels")) =>
    /\ Len(LabelEntries) = Len(LayoutEntries)
    /\ Len(LabelEntries) = Len(Fields(data))
    /\ \A n \in 1..Len(LabelEntries) :
         /\ EntryName(LabelEntries[n]) = EntryName(LayoutEntries[n])
         /\ EntryName(LabelEntries[n]) = FieldName(data, Fields(data)[n])
         /\ LabelEntries[n].args[Len(LabelEntries[n].args)] = data[Fields(data)[n][1]].Label

C5_Witness ==
  /\ Returned("DataList") /\ Returned("VariableLabels")
  /\ Len(data) = 2
  /\ data[1].Type = "character"
  /\ data[2].Type = "multiple" /\ Len(data[2].Vals) = 2
  /\ Len(LabelEntries) = 3

\* The four blocks in the order the output file is to hold them.
BlockOrder == <<"DataList", "VariableLabels", "ValueLabels", "SaveToSPSS">>
BlockOpening == <<"FILE HANDLE longdata\n/NAME=\"%s\".\n", "VARIABLE LABELS\n", "VALUE LABELS\n",
                  "SAVE OUTFILE='%s/%s.sav'\n/COMPRESSED.">>
Rank(f) == CHOOSE r \in 1..Len(BlockOrder) : BlockOrder[r] = f

\* C6: when the run completes without error the file holds the layout block,
\* the variable-label block, the value-label block and the save directive in
\* this order, each once, and the save directive is the last write.
C6_BlocksInOrder ==
  pc = "done" =>
    /\ \A i, j \in 1..Len(out) : i < j => Rank(out[i].fn) <= Rank(out[j].fn)
    /\ \A r \in 1..Len(BlockOrder) :
         Cardinality({i \in 1..Len(out) : out[i].fmt = BlockOpening[r]}) = 1
    /\ Len(Block("SaveToSPSS")) = 1
    /\ out[Len(out)].fn = "SaveToSPSS"
    /\ \A i \in 1..Len(out) : ~out[i].short

C6_Witness ==
  /\ pc = "done"
  /\ Len(data) = 2
  /\ data[1].Type = "single" /\ data[2].Type = "multiple"
  /\ Len(out) > 12

\* Every write main makes in a run where no write fails.
AllWrites ==
  DataListWrites(Handle, data) \o VariableLabelsWrites(data) \o ValueLabelsWrites(data)
  \o SaveToSPSSWrites(Str(Dir(input)), Str(fn))

\* The write the environment fails has been attempted.
SinkFailed == env.failAt > 0 /\ nw >= env.failAt

\* C7: once a write to the output file has failed, the run has ended with a
\* diagnostic, no further write was attempted and none retried, and the
\* file holds exactly the writes that succeeded before the failure (and at
\* most a part of the failed one).
C7_WriteFailureAborts ==
  SinkFailed =>
    /\ pc = "fatal"
    /\ diag # ""
    /\ nw = env.failAt
    /\ SelectSeq(out, LAMBDA w : ~w.short) = SubSeq(AllWrites, 1, env.failAt - 1)
    /\ Len(out) = env.failAt - 1 + (IF env.short THEN 1 ELSE 0)

C7_Witness ==
  /\ SinkFailed
  /\ pc = "fatal"
  /\ step = 2
  /\ env.short
  /\ Len(Block("ValueLabels")) > 3

\* C8: when reading or decoding the input fails, the run aborts: no
\* generation step runs and nothing is written to the output.
C8_InputFailureAborts ==
  (pc \notin {"start", "args", "opened"} /\ ~b.wf) => (step = 0 /\ out = <<>>)

\* The base name without its extension suffix.
Stem(p) == SubSeq(Base(p), 1, Len(Base(p)) - Len(Ext(p)))

\* C9: the output file is created in the directory of the input, named by
\* the input's base name with exactly its extension suffix removed and the
\* extension .sps, and the save directive uses the same stem.
C9_SameStem ==
  pc \in {"gen", "done"} =>
    /\ fn = Stem(input)
    /\ outPath = Dir(input) \o <<"/">> \o Stem(input) \o <<".", "s", "p", "s">>
    /\ pc = "done" => out[Len(out)].args = <<Str(Dir(input)), Str(Stem(input))>>

\* C10: the layout line of a non-multiple variable is name, start-finish and
\* a marker, the marker being " (A)" exactly for the types character, time
\* and date and empty for every other type; the entries of a multiple
\* variable carry no marker.
C10_AlignmentMarker ==
  Returned("DataList") =>
    \A n \in 1..Len(Fields(data)) :
      LET s == Fields(data)[n]
          v == data[s[1]]
      IN /\ n <= Len(LayoutEntries)
         /\ IF s[2] = 0
            THEN LayoutEntries[n].args =
                   <<v.Name, ToString(v.Position.Start), ToString(v.Position.Finish),
                     IF v.Type \in {"character", "time", "date"} THEN " (A)" ELSE "">>
            ELSE /\ Len(LayoutEntries[n].args) = 4
                 /\ \A k \in 1..4 : LayoutEntries[n].args[k] \notin {" (A)", "(A)"}

C10_Witness ==
  /\ Returned("DataList")
  /\ Len(data) = 2
  /\ data[1].Type = "date" /\ data[2].Type = "quantity"
  /\ LayoutEntries[1].args[4] = " (A)"
  /\ LayoutEntries[2].args[4] = ""

====
